---------------------------- MODULE Spec2Model ----------------------------
(***************************************************************************)
(* search-param-combinators: bidirectional (parse / serialize) combinators *)
(* over URLSearchParams.                                                   *)
(*                                                                         *)
(* Modelling conventions                                                   *)
(*   - A JavaScript string is a sequence of character codes (ASCII range   *)
(*     in the inputs that are enumerated), so that decodeURIComponent,     *)
(*     encodeURIComponent, parseInt, parseFloat and Number.toString are    *)
(*     computed character by character.                                    *)
(*   - A JavaScript value is a tagged record [t |-> ..., ...].             *)
(*   - A JavaScript number is [k, m, e]: k = "fin" denotes m * 10^(-e),    *)
(*     k = "nan" / "inf" / "ninf" the special values.                     *)
(*   - A Result is [status, data, warnings, errors].  The extra status     *)
(*     "throw" is not a Result of the library: it stands for a JavaScript  *)
(*     exception leaving the call (the call returns nothing).              *)
(*   - A message is [kind, key, arg]: kind names the message template of   *)
(*     the source, key and arg its interpolated parts.                     *)
(***************************************************************************)
EXTENDS Integers, Sequences, FiniteSets, TLC

(***************************************************************************)
(* Strings                                                                 *)
(***************************************************************************)
Digit(d) == 48 + d

IsDigit(c) == c >= 48 /\ c <= 57

\* value of a hexadecimal digit, -1 when c is none
HexVal(c) ==
  IF c >= 48 /\ c <= 57 THEN c - 48
  ELSE IF c >= 65 /\ c <= 70 THEN c - 55
  ELSE IF c >= 97 /\ c <= 102 THEN c - 87
  ELSE -1

\* upper-case hexadecimal digit of 0..15
HexDigit(n) == IF n < 10 THEN 48 + n ELSE 55 + n

\* the byte written at position i of s as %XY, -1 when there is none
EscapedByte(s, i) ==
  IF i + 2 <= Len(s) /\ s[i] = 37 /\ HexVal(s[i + 1]) >= 0 /\ HexVal(s[i + 2]) >= 0
  THEN 16 * HexVal(s[i + 1]) + HexVal(s[i + 2])
  ELSE -1

IsContinuation(b) == b >= 128 /\ b <= 191

\* UTF-16 code units of code point cp
CodeUnits(cp) ==
  IF cp < 65536 THEN <<cp>>
  ELSE <<55296 + ((cp - 65536) \div 1024), 56320 + ((cp - 65536) % 1024)>>

\* decodeURIComponent from position i on: [ok, s]; ok = FALSE is URIError
RECURSIVE DecodeFrom(_, _)
DecodeFrom(s, i) ==
  IF i > Len(s) THEN [ok |-> TRUE, s |-> <<>>]
  ELSE IF s[i] # 37 THEN
    LET rest == DecodeFrom(s, i + 1)
    IN  [ok |-> rest.ok, s |-> <<s[i]>> \o rest.s]
  ELSE
    LET b0 == EscapedByte(s, i)
        b1 == EscapedByte(s, i + 3)
        b2 == EscapedByte(s, i + 6)
        b3 == EscapedByte(s, i + 9)
        n  == IF b0 < 128 THEN 0
              ELSE IF b0 >= 194 /\ b0 <= 223 THEN 1
              ELSE IF b0 >= 224 /\ b0 <= 239 THEN 2
              ELSE IF b0 >= 240 /\ b0 <= 244 THEN 3
              ELSE -1
        cp == IF n = 0 THEN b0
              ELSE IF n = 1 THEN (b0 - 192) * 64 + (b1 - 128)
              ELSE IF n = 2 THEN (b0 - 224) * 4096 + (b1 - 128) * 64 + (b2 - 128)
              ELSE (b0 - 240) * 262144 + (b1 - 128) * 4096 + (b2 - 128) * 64 + (b3 - 128)
        wellFormed ==
             /\ b0 >= 0
             /\ n >= 0
             /\ n >= 1 => IsContinuation(b1)
             /\ n >= 2 => IsContinuation(b2)
             /\ n >= 3 => IsContinuation(b3)
             /\ n = 2 => (cp >= 2048 /\ ~(cp >= 55296 /\ cp <= 57343))
             /\ n = 3 => (cp >= 65536 /\ cp <= 1114111)
    IN  IF ~wellFormed THEN [ok |-> FALSE, s |-> <<>>]
        ELSE LET rest == DecodeFrom(s, i + 3 * (n + 1))
             IN  [ok |-> rest.ok, s |-> CodeUnits(cp) \o rest.s]

decodeURIComponent(s) == DecodeFrom(s, 1)

\* the characters encodeURIComponent leaves as they are: A-Z a-z 0-9 - _ . ! ~ * ' ( )
IsUnreserved(c) ==
  \/ (c >= 65 /\ c <= 90) \/ (c >= 97 /\ c <= 122) \/ IsDigit(c)
  \/ c \in {45, 95, 46, 33, 126, 42, 39, 40, 41}

PercentByte(b) == <<37, HexDigit(b \div 16), HexDigit(b % 16)>>

\* the UTF-8 bytes of code point cp, each percent-escaped
PercentUtf8(cp) ==
  IF cp < 128 THEN PercentByte(cp)
  ELSE IF cp < 2048 THEN PercentByte(192 + (cp \div 64)) \o PercentByte(128 + (cp % 64))
  ELSE IF cp < 65536 THEN
    PercentByte(224 + (cp \div 4096)) \o PercentByte(128 + ((cp \div 64) % 64))
      \o PercentByte(128 + (cp % 64))
  ELSE
    PercentByte(240 + (cp \div 262144)) \o PercentByte(128 + ((cp \div 4096) % 64))
      \o PercentByte(128 + ((cp \div 64) % 64)) \o PercentByte(128 + (cp % 64))

\* encodeURIComponent from position i on: [ok, s]; ok = FALSE is URIError
\* (a lone surrogate)
RECURSIVE EncodeFrom(_, _)
EncodeFrom(s, i) ==
  IF i > Len(s) THEN [ok |-> TRUE, s |-> <<>>]
  ELSE
    LET c == s[i]
        isHigh == c >= 55296 /\ c <= 56319
        isLow == c >= 56320 /\ c <= 57343
        paired == isHigh /\ i + 1 <= Len(s) /\ s[i + 1] >= 56320 /\ s[i + 1] <= 57343
        cp == IF paired THEN 65536 + (c - 55296) * 1024 + (s[i + 1] - 56320) ELSE c
    IN  IF isLow \/ (isHigh /\ ~paired) THEN [ok |-> FALSE, s |-> <<>>]
        ELSE LET rest == EncodeFrom(s, IF paired THEN i + 2 ELSE i + 1)
             IN  [ok |-> rest.ok,
                  s |-> (IF IsUnreserved(c) THEN <<c>> ELSE PercentUtf8(cp)) \o rest.s]

encodeURIComponent(s) == EncodeFrom(s, 1)

(***************************************************************************)
(* Numbers                                                                 *)
(***************************************************************************)
NaN == [k |-> "nan", m |-> 0, e |-> 0]

Infinity == [k |-> "inf", m |-> 0, e |-> 0]

NegInfinity == [k |-> "ninf", m |-> 0, e |-> 0]

RECURSIVE Pow10(_)
Pow10(n) == IF n = 0 THEN 1 ELSE 10 * Pow10(n - 1)

\* m * 10^(-e) with the trailing zeros of the fraction removed
RECURSIVE Fin(_, _)
Fin(m, e) ==
  IF e > 0 /\ m % 10 = 0 THEN Fin(m \div 10, e - 1)
  ELSE [k |-> "fin", m |-> m, e |-> e]

Int2Num(n) == Fin(n, 0)

isNaN(n) == n.k = "nan"

\* StrWhiteSpaceChar: white space and line terminators
IsWhiteSpace(c) ==
  c \in {9, 10, 11, 12, 13, 32, 160, 5760, 8232, 8233, 8239, 8287, 12288, 65279}
  \/ (c >= 8192 /\ c <= 8202)

RECURSIVE SkipWhiteSpace(_, _)
SkipWhiteSpace(s, i) ==
  IF i <= Len(s) /\ IsWhiteSpace(s[i]) THEN SkipWhiteSpace(s, i + 1) ELSE i

\* first position from i on that holds no digit of the radix
RECURSIVE DigitsEnd(_, _, _)
DigitsEnd(s, i, radix) ==
  IF i <= Len(s) /\ HexVal(s[i]) >= 0 /\ HexVal(s[i]) < radix
  THEN DigitsEnd(s, i + 1, radix)
  ELSE i

\* the number written by the digits s[i..j-1] in the radix
RECURSIVE DigitsValue(_, _, _, _)
DigitsValue(s, i, j, radix) ==
  IF j <= i THEN 0
  ELSE radix * DigitsValue(s, i, j - 1, radix) + HexVal(s[j - 1])

HasSign(s, i) == i <= Len(s) /\ s[i] \in {43, 45}

\* parseInt(s) with no radix argument
parseInt(s) ==
  LET i0 == SkipWhiteSpace(s, 1)
      neg == i0 <= Len(s) /\ s[i0] = 45
      i1 == IF HasSign(s, i0) THEN i0 + 1 ELSE i0
      hex == i1 + 1 <= Len(s) /\ s[i1] = 48 /\ s[i1 + 1] \in {120, 88}
      radix == IF hex THEN 16 ELSE 10
      i2 == IF hex THEN i1 + 2 ELSE i1
      i3 == DigitsEnd(s, i2, radix)
      v == DigitsValue(s, i2, i3, radix)
  IN  IF i3 = i2 THEN NaN ELSE Int2Num(IF neg THEN -v ELSE v)

IsPrefixAt(p, s, i) ==
  i + Len(p) - 1 <= Len(s) /\ \A j \in 1..Len(p) : s[i + j - 1] = p[j]

\* "Infinity"
InfinityLiteral == <<73, 110, 102, 105, 110, 105, 116, 121>>

\* parseFloat(s): the longest prefix that is a StrDecimalLiteral
parseFloat(s) ==
  LET i0 == SkipWhiteSpace(s, 1)
      neg == i0 <= Len(s) /\ s[i0] = 45
      i1 == IF HasSign(s, i0) THEN i0 + 1 ELSE i0
      i2 == DigitsEnd(s, i1, 10)
      dot == i2 <= Len(s) /\ s[i2] = 46
      i3 == IF dot THEN DigitsEnd(s, i2 + 1, 10) ELSE i2
      nInt == i2 - i1
      nFrac == IF dot THEN i3 - (i2 + 1) ELSE 0
      hasExp == i3 <= Len(s) /\ s[i3] \in {101, 69}
      x0 == i3 + 1
      expNeg == x0 <= Len(s) /\ s[x0] = 45
      x1 == IF HasSign(s, x0) THEN x0 + 1 ELSE x0
      x2 == DigitsEnd(s, x1, 10)
      useExp == hasExp /\ x2 > x1
      ex == IF useExp
            THEN (IF expNeg THEN -1 ELSE 1) * DigitsValue(s, x1, x2, 10)
            ELSE 0
      mant == DigitsValue(s, i1, i2, 10) * Pow10(nFrac)
                + (IF dot THEN DigitsValue(s, i2 + 1, i3, 10) ELSE 0)
      sm == IF neg THEN -mant ELSE mant
  IN  IF IsPrefixAt(InfinityLiteral, s, i1) THEN (IF neg THEN NegInfinity ELSE Infinity)
      ELSE IF nInt + nFrac = 0 THEN NaN
      ELSE IF ex >= nFrac THEN Fin(sm * Pow10(ex - nFrac), 0)
      ELSE Fin(sm, nFrac - ex)

\* the decimal digits of a natural number
RECURSIVE NatDigits(_)
NatDigits(n) ==
  IF n < 10 THEN <<Digit(n)>> ELSE NatDigits(n \div 10) \o <<Digit(n % 10)>>

\* a digit string padded with zeros on the left to n characters
RECURSIVE PadLeft(_, _)
PadLeft(s, n) == IF Len(s) >= n THEN s ELSE PadLeft(<<48>> \o s, n)

\* Number.prototype.toString() (radix 10), for magnitudes printed without an
\* exponent (1e-6 <= |x| < 1e21)
toString(n) ==
  IF n.k = "nan" THEN <<78, 97, 78>>
  ELSE IF n.k = "inf" THEN InfinityLiteral
  ELSE IF n.k = "ninf" THEN <<45>> \o InfinityLiteral
  ELSE
    LET a == IF n.m < 0 THEN -n.m ELSE n.m
        sign == IF n.m < 0 THEN <<45>> ELSE <<>>
        ip == NatDigits(a \div Pow10(n.e))
        fp == PadLeft(NatDigits(a % Pow10(n.e)), n.e)
    IN  IF n.e = 0 THEN sign \o ip ELSE sign \o ip \o <<46>> \o fp

(***************************************************************************)
(* JavaScript values                                                       *)
(***************************************************************************)
Undefined == [t |-> "undefined"]

Str(s) == [t |-> "string", s |-> s]

Num(n) == [t |-> "number", n |-> n]

Bool(b) == [t |-> "boolean", b |-> b]

Arr(xs) == [t |-> "array", xs |-> xs]

\* an object: its own properties in property order, each <<name, value>>
Obj(props) == [t |-> "object", props |-> props]

(***************************************************************************)
(* Result.ts                                                               *)
(***************************************************************************)
Msg(kind, key, arg) == [kind |-> kind, key |-> key, arg |-> arg]

SuccessResult(data) ==
  [status |-> "success", data |-> data, warnings |-> <<>>, errors |-> <<>>]

WarningResult(data, warnings) ==
  [status |-> "warning", data |-> data, warnings |-> warnings, errors |-> <<>>]

\* ErrorResult(error0, ...errors): the warnings start empty
ErrorResult(errors) ==
  [status |-> "error", data |-> Undefined, warnings |-> <<>>, errors |-> errors]

\* a JavaScript exception of the given name leaving the call
Thrown(name) ==
  [status |-> "throw", data |-> Undefined, warnings |-> <<>>,
   errors |-> <<Msg(name, "", <<>>)>>]

HasData(r) == r.status \in {"success", "warning"}

\* a plausible slip: the mapped result is built anew, without the warnings
Result_map_dropsWarnings(ru, fdata) ==
  IF ru.status \in {"error", "throw"} THEN ru ELSE SuccessResult(fdata)

\* Result.map(f, ru), with fdata standing for f(ru.data)
Result_map(ru, fdata) ==
  IF ru.status \in {"error", "throw"} THEN ru ELSE [ru EXCEPT !.data = fdata]

\* a plausible slip: the inner warnings are put before the outer ones
Result_flatten_innerFirst(rru) ==
  CASE rru.status \in {"error", "throw"} -> rru
    [] rru.status = "success" -> rru.data
    [] rru.status = "warning" ->
         CASE rru.data.status = "throw" -> rru.data
           [] rru.data.status = "error" ->
                [status |-> "error", data |-> Undefined,
                 errors |-> rru.data.errors,
                 warnings |-> rru.data.warnings \o rru.warnings]
           [] rru.data.status = "warning" ->
                [rru.data EXCEPT !.warnings = rru.data.warnings \o rru.warnings]
           [] rru.data.status = "success" ->
                [rru EXCEPT !.data = rru.data.data]

\* Result.flatten(rru)
Result_flatten(rru) ==
  CASE rru.status \in {"error", "throw"} -> rru
    [] rru.status = "success" -> rru.data
    [] rru.status = "warning" ->
         CASE rru.data.status = "throw" -> rru.data
           [] rru.data.status = "error" ->
                [status |-> "error", data |-> Undefined,
                 errors |-> rru.data.errors,
                 warnings |-> rru.warnings \o rru.data.warnings]
           [] rru.data.status = "warning" ->
                [rru.data EXCEPT !.warnings = rru.warnings \o rru.data.warnings]
           [] rru.data.status = "success" ->
                [rru EXCEPT !.data = rru.data.data]

\* Result.bind(f, ru), with fdata standing for f(ru.data)
Result_bind(ru, fdata) == Result_flatten(Result_map(ru, fdata))

\* a plausible slip: the operands are nested the other way round,
\* flatten(map(u1 => map(u2 => fn(u1, u2), ru2), ru1))
Result_map2_firstOutside(ru1, ru2, fdata) ==
  Result_flatten(Result_map(ru1, Result_map(ru2, fdata)))

\* Result.map2(fn, ru1, ru2), with fdata standing for fn(ru1.data, ru2.data):
\* flatten(map(u2 => map(u1 => fn(u1, u2), ru1), ru2))
Result_map2(ru1, ru2, fdata) ==
  Result_flatten(Result_map(ru2, Result_map(ru1, fdata)))

\* Result.map2(fn, ru1, ru2), with fn the list constructor (x, y) => [x, ...y]
\* of array.parse: flatten(map(u2 => map(u1 => fn(u1, u2), ru1), ru2))
Result_map2_cons(ru1, ru2) ==
  Result_flatten(
    Result_map(ru2, Result_map(ru1, Arr(<<ru1.data>> \o ru2.data.xs))))

\* the notes Result.either puts first in the warnings or errors it builds
BothErrors == Msg("Both parse branches encountered errors.", "", <<>>)

FewerWarnings ==
  Msg("Both parse branches produced valid data, returned value with fewer warnings.", "", <<>>)

Arbitrary ==
  Msg("Both parse branches produced valid data, returned value may be arbitrary.", "", <<>>)

\* the source has no ", " in this one
ArbitraryBothWarn ==
  Msg("Both parse branches produced valid datareturned value may be arbitrary.", "", <<>>)

\* a plausible slip: the left payload is returned whatever the warnings
Result_either_leftAlways(a, b) ==
  CASE a.status = "error" /\ b.status # "error" -> b
    [] a.status = "error" /\ b.status = "error" ->
         [status |-> "error", data |-> Undefined,
          errors |-> <<BothErrors>> \o a.errors \o b.errors,
          warnings |-> a.warnings \o b.warnings]
    [] a.status = "success" /\ b.status = "error" -> a
    [] a.status = "success" /\ b.status = "warning" ->
         WarningResult(a.data, <<FewerWarnings>> \o b.warnings)
    [] a.status = "success" /\ b.status = "success" ->
         WarningResult(a.data, <<Arbitrary>>)
    [] a.status = "warning" /\ b.status = "error" -> a
    [] a.status = "warning" /\ b.status = "success" ->
         WarningResult(a.data, <<FewerWarnings>> \o a.warnings)
    [] a.status = "warning" /\ b.status = "warning" ->
         WarningResult(a.data, <<ArbitraryBothWarn>> \o a.warnings \o b.warnings)

\* Result.either(a, b)
Result_either(a, b) ==
  CASE a.status = "error" /\ b.status # "error" -> b
    [] a.status = "error" /\ b.status = "error" ->
         [status |-> "error", data |-> Undefined,
          errors |-> <<BothErrors>> \o a.errors \o b.errors,
          warnings |-> a.warnings \o b.warnings]
    [] a.status = "success" /\ b.status = "error" -> a
    [] a.status = "success" /\ b.status = "warning" ->
         WarningResult(a.data, <<FewerWarnings>> \o b.warnings)
    [] a.status = "success" /\ b.status = "success" ->
         WarningResult(a.data, <<Arbitrary>>)
    [] a.status = "warning" /\ b.status = "error" -> a
    [] a.status = "warning" /\ b.status = "success" ->
         WarningResult(b.data, <<FewerWarnings>> \o a.warnings)
    [] a.status = "warning" /\ b.status = "warning" ->
         WarningResult(a.data, <<ArbitraryBothWarn>> \o a.warnings \o b.warnings)

\* Result.addWarnings(result, ...warnings): the warnings are appended to the
\* result's own; a success that receives a warning becomes a warning
Result_addWarnings(result, warnings) ==
  IF warnings = <<>> \/ result.status = "throw" THEN result
  ELSE IF result.status = "success" THEN WarningResult(result.data, warnings)
  ELSE [result EXCEPT !.warnings = result.warnings \o warnings]

(***************************************************************************)
(* SearchParamContext.ts                                                   *)
(*                                                                         *)
(* A URLSearchParams object is the sequence of its <<key, value>> pairs.   *)
(* A context is [progress, valueMap, keys, reads]: progress and valueMap   *)
(* are the two records of the class, keys is Object.keys(valueMap) in its  *)
(* (insertion) order.  reads and misses are history fields the class does  *)
(* not have: reads lists the <<key, index>> of every occurrence that the   *)
(* gets leading to this context returned, misses counts for each key the   *)
(* gets leading to this context that found the key exhausted.              *)
(***************************************************************************)
\* the distinct keys of params in order of first appearance
RECURSIVE KeysOf(_)
KeysOf(params) ==
  IF params = <<>> THEN <<>>
  ELSE LET front == KeysOf(SubSeq(params, 1, Len(params) - 1))
           k == params[Len(params)][1]
       IN  IF \E i \in 1..Len(front) : front[i] = k THEN front ELSE Append(front, k)

\* params.getAll(key)
RECURSIVE GetAll(_, _)
GetAll(params, key) ==
  IF params = <<>> THEN <<>>
  ELSE (IF Head(params)[1] = key THEN <<Head(params)[2]>> ELSE <<>>)
         \o GetAll(Tail(params), key)

PartialResult(ctx, res) == [ctx |-> ctx, res |-> res]

\* a call that an exception leaves returns nothing; the context is a filler
Throws(ctx, name) == PartialResult(ctx, Thrown(name))

fromUrlSearchParams(params) ==
  LET keys == KeysOf(params)
      keySet == {keys[i] : i \in 1..Len(keys)}
  IN  [progress |-> [k \in keySet |-> 0],
       valueMap |-> [k \in keySet |-> GetAll(params, k)],
       keys |-> keys,
       reads |-> <<>>,
       misses |-> [k \in keySet |-> 0]]

NotFound(key) ==
  ErrorResult(<<Msg("Required search parameter was not found", key, <<>>)>>)

\* Could not find #n value of search parameter [key]. [key] only has len values.
CouldNotFind(key, n, len) ==
  ErrorResult(<<Msg("Could not find value of search parameter", key, <<n, len>>)>>)

\* a plausible slip: the cursor is advanced only when a value was found
SearchParamContext_get_noAdvanceOnMiss(this, key) ==
  IF key \notin DOMAIN this.progress THEN PartialResult(this, NotFound(key))
  ELSE
    LET nextIndex == this.progress[key]
        nextValues == this.valueMap[key]
    IN  IF nextIndex >= Len(nextValues)
        THEN PartialResult([this EXCEPT !.misses[key] = @ + 1],
                           CouldNotFind(key, nextIndex + 1, Len(nextValues)))
        ELSE PartialResult(
               [this EXCEPT !.progress[key] = nextIndex + 1,
                            !.reads = Append(@, <<key, nextIndex>>)],
               SuccessResult(Str(nextValues[nextIndex + 1])))

\* a plausible slip: the exhausted key is reported as not found, on the
\* context itself
SearchParamContext_get_missIsNotFound(this, key) ==
  IF key \notin DOMAIN this.progress \/ this.progress[key] >= Len(this.valueMap[key])
  THEN PartialResult(this, NotFound(key))
  ELSE PartialResult(
         [this EXCEPT !.progress[key] = @ + 1,
                      !.reads = Append(@, <<key, this.progress[key]>>)],
         SuccessResult(Str(this.valueMap[key][this.progress[key] + 1])))

\* a plausible slip: the cursor is left where it was
SearchParamContext_get_noAdvance(this, key) ==
  IF key \notin DOMAIN this.progress THEN PartialResult(this, NotFound(key))
  ELSE
    LET nextIndex == this.progress[key]
        nextValues == this.valueMap[key]
    IN  IF nextIndex >= Len(nextValues)
        THEN PartialResult([this EXCEPT !.misses[key] = @ + 1],
                           CouldNotFind(key, nextIndex + 1, Len(nextValues)))
        ELSE PartialResult([this EXCEPT !.reads = Append(@, <<key, nextIndex>>)],
                           SuccessResult(Str(nextValues[nextIndex + 1])))

\* a plausible slip: the occurrence returned is the one at the new cursor
SearchParamContext_get_readsAtNewCursor(this, key) ==
  IF key \notin DOMAIN this.progress THEN PartialResult(this, NotFound(key))
  ELSE
    LET nextIndex == this.progress[key] + 1
        nextValues == this.valueMap[key]
    IN  IF nextIndex >= Len(nextValues)
        THEN PartialResult([this EXCEPT !.progress[key] = nextIndex,
                                        !.misses[key] = @ + 1],
                           CouldNotFind(key, nextIndex, Len(nextValues)))
        ELSE PartialResult(
               [this EXCEPT !.progress[key] = nextIndex,
                            !.reads = Append(@, <<key, nextIndex>>)],
               SuccessResult(Str(nextValues[nextIndex + 1])))

\* get(key).  nextValues[nextIndex] is 0-based in the source: it is undefined
\* exactly when nextIndex >= nextValues.length.  reads and misses are the
\* history of the reads: the occurrences returned, and the number of reads
\* that found the key exhausted.
SearchParamContext_get(this, key) ==
  IF key \notin DOMAIN this.progress THEN PartialResult(this, NotFound(key))
  ELSE
    LET nextIndex == this.progress[key]
        nextValues == this.valueMap[key]
        nextProgress == [this.progress EXCEPT ![key] = nextIndex + 1]
    IN  IF nextIndex >= Len(nextValues)
        THEN PartialResult([this EXCEPT !.progress = nextProgress,
                                        !.misses[key] = @ + 1],
                           CouldNotFind(key, nextProgress[key], Len(nextValues)))
        ELSE PartialResult(
               [this EXCEPT !.progress = nextProgress,
                            !.reads = Append(@, <<key, nextIndex>>)],
               SuccessResult(Str(nextValues[nextIndex + 1])))

\* a plausible slip: the last occurrence is not counted
remainingKeys_offByOne(this) ==
  SelectSeq(this.keys, LAMBDA key : this.progress[key] < Len(this.valueMap[key]) - 1)

\* a plausible slip: <= for <
remainingKeys_inclusive(this) ==
  SelectSeq(this.keys, LAMBDA key : this.progress[key] <= Len(this.valueMap[key]))

remainingKeys(this) ==
  SelectSeq(this.keys, LAMBDA key : this.progress[key] < Len(this.valueMap[key]))

(***************************************************************************)
(* PartialResult.ts                                                        *)
(***************************************************************************)
\* PartialResult.map(f, pr), with fdata standing for f(pr[1].data)
PartialResult_map(pr, fdata) == PartialResult(pr.ctx, Result_map(pr.res, fdata))

\* PartialResult.semiExtract(rpru, fallbackParams): the data of rpru is a
\* PartialResult
PartialResult_semiExtract(rpru, fallbackParams) ==
  IF rpru.status \in {"error", "throw"} THEN PartialResult(fallbackParams, rpru)
  ELSE PartialResult(rpru.data.ctx, Result_bind(rpru, rpru.data.res))

\* PartialResult.bind(f, ru) = flatten(map(f, ru)), with fdata standing for
\* f(ru[1].data), itself a PartialResult
PartialResult_bind(ru, fdata) ==
  PartialResult_semiExtract(PartialResult_map(ru, fdata).res, ru.ctx)

(***************************************************************************)
(* Combinators.ts: the mappings.  A mapping is the record of the           *)
(* combinator call that built it; Parse and Serialize are its two          *)
(* functions.                                                              *)
(***************************************************************************)
prim(key) == [kind |-> "prim", key |-> key]

string(key) == [kind |-> "string", key |-> key]

integer(key) == [kind |-> "integer", key |-> key]

number(key) == [kind |-> "number", key |-> key]

makeEnum(values, key) == [kind |-> "enum", key |-> key, values |-> values]

makeConst(value) == [kind |-> "const", value |-> value]

boolean(key) == [kind |-> "boolean", key |-> key]

optional(mapping) == [kind |-> "optional", inner |-> mapping]

withDefault(mapping, defaultValue) ==
  [kind |-> "default", inner |-> mapping, defaultValue |-> defaultValue]

array(mapping) == [kind |-> "array", inner |-> mapping]

\* fieldNames = Object.keys(mappings), mappings[fieldNames[i]] = fields[i]
object(fieldNames, fields) ==
  [kind |-> "object", fieldNames |-> fieldNames, fields |-> fields]

taggedUnion(tag, fieldNames, fields) ==
  [kind |-> "union", tag |-> tag, fieldNames |-> fieldNames, fields |-> fields]

\* "true", "false", "type"
TrueLiteral == <<116, 114, 117, 101>>

FalseLiteral == <<102, 97, 108, 115, 101>>

TypeName == <<116, 121, 112, 101>>

\* index of name in names, 0 when there is none
IndexOf(names, name) ==
  IF \E i \in 1..Len(names) : names[i] = name
  THEN CHOOSE i \in 1..Len(names) : names[i] = name /\ \A j \in 1..(i - 1) : names[j] # name
  ELSE 0

\* value[name] of an object value, undefined when it has no such property
GetProp(value, name) ==
  LET names == [i \in 1..Len(value.props) |-> value.props[i][1]]
      i == IndexOf(names, name)
  IN  IF i = 0 THEN Undefined ELSE value.props[i][2]

\* value[name] = v: an own property keeps its place, a new one is added last
SetProp(value, name, v) ==
  LET names == [i \in 1..Len(value.props) |-> value.props[i][1]]
      i == IndexOf(names, name)
  IN  IF i = 0 THEN Obj(Append(value.props, <<name, v>>))
      ELSE Obj([value.props EXCEPT ![i] = <<name, v>>])

\* the property key a value is converted to in mappings[d]
PropertyKey(d) ==
  CASE d.t = "string" -> d.s
    [] d.t = "number" -> toString(d.n)
    [] d.t = "boolean" -> IF d.b THEN TrueLiteral ELSE FalseLiteral
    [] OTHER -> <<117, 110, 100, 101, 102, 105, 110, 101, 100>>

\* { ...value }: the own enumerable properties of value
Spread(value) == IF value.t = "object" THEN value ELSE Obj(<<>>)

\* In the definitions below an intermediate value of the source (a const, a
\* destructured pair) is a parameter of a helper operator: X_step(..., v)
\* continues function X of the source once v is computed.

RECURSIVE Parse(_, _)

prim_parse(key, params) == SearchParamContext_get(params, key)

\* SearchParamMapping.map(parse, serialize, mapping).parse, pr being
\* mapping.parse(params) and fdata standing for parse(result.data)
SearchParamMapping_map_parse(pr, fdata) ==
  PartialResult(pr.ctx, Result_map(pr.res, fdata))

\* SearchParamMapping.bindResult(parse, serialize, mapping).parse, pr being
\* mapping.parse(params) and fdata standing for parse(result.data)
SearchParamMapping_bindResult_parse(pr, fdata) ==
  PartialResult(pr.ctx, Result_bind(pr.res, fdata))

\* string(key).parse once decodeURIComponent(result.data) is evaluated: the
\* URIError it raises leaves Result.map and the parse
string_decoded(params, pr, decoded) ==
  IF HasData(pr.res) /\ ~decoded.ok THEN Throws(params, "URIError")
  ELSE SearchParamMapping_map_parse(pr, Str(decoded.s))

string_parse_step(params, pr) ==
  string_decoded(params, pr, decodeURIComponent(pr.res.data.s))

\* SearchParamMapping.map(decodeURIComponent, encodeURIComponent, prim(key)).parse
string_parse(key, params) == string_parse_step(params, prim_parse(key, params))

integer_check_step(key, value, n) ==
  IF isNaN(n)
  THEN ErrorResult(<<Msg("An integer search parameter could not be read as an integer", key, value)>>)
  ELSE IF toString(n) # value
  THEN WarningResult(Num(n),
         <<Msg("An integer search parameter could only partially be read as an integer", key, value)>>)
  ELSE SuccessResult(Num(n))

\* a plausible slip: parseFloat for parseInt
integer_check_float(key, value) == integer_check_step(key, value, parseFloat(value))

\* the parse function integer(key) gives to bindResult
integer_check(key, value) == integer_check_step(key, value, parseInt(value))

integer_parse_step(key, pr) ==
  SearchParamMapping_bindResult_parse(pr, integer_check(key, pr.res.data.s))

integer_parse(key, params) == integer_parse_step(key, string_parse(key, params))

number_check_step(key, value, n) ==
  IF isNaN(n)
  THEN ErrorResult(<<Msg("A numerical search parameter could not be read as a number", key, value)>>)
  ELSE IF toString(n) # value
  THEN WarningResult(Num(n),
         <<Msg("A numerical search parameter could only partially be read as a number", key, value)>>)
  ELSE SuccessResult(Num(n))

\* the parse function number(key) gives to bindResult
number_check(key, value) == number_check_step(key, value, parseFloat(value))

number_parse_step(key, pr) ==
  SearchParamMapping_bindResult_parse(pr, number_check(key, pr.res.data.s))

number_parse(key, params) == number_parse_step(key, string_parse(key, params))

\* the parse function makeEnum(...values)(key) gives to bindResult
enum_check(values, key, value) ==
  IF IndexOf(values, value) > 0 THEN SuccessResult(Str(value))
  ELSE ErrorResult(<<Msg("An enum search parameter could not be interpreted", key, value)>>)

enum_parse_step(values, key, pr) ==
  SearchParamMapping_bindResult_parse(pr, enum_check(values, key, pr.res.data.s))

enum_parse(values, key, params) ==
  enum_parse_step(values, key, string_parse(key, params))

boolean_parse_step(pr) ==
  SearchParamMapping_map_parse(pr, Bool(pr.res.data.s = TrueLiteral))

\* SearchParamMapping.map(value => value === "true", ..., makeEnum("true", "false")(key)).parse
boolean_parse(key, params) ==
  boolean_parse_step(enum_parse(<<TrueLiteral, FalseLiteral>>, key, params))

\* SearchParamMapping.pure(value).parse
pure_parse(value, params) == PartialResult(params, SuccessResult(value))

\* a plausible slip: the context of the failed attempt is returned
optional_parse_step_keepsRemainder(params, pr) ==
  IF pr.res.status = "error" THEN PartialResult(pr.ctx, SuccessResult(Undefined))
  ELSE pr

\* optional(mapping).parse, pr being [remainder, result]
optional_parse_step(params, pr) ==
  IF pr.res.status = "error" THEN PartialResult(params, SuccessResult(Undefined))
  ELSE pr

optional_parse(mapping, params) == optional_parse_step(params, Parse(mapping, params))

\* a plausible slip: the context of the failed attempt is returned
withDefault_parse_step_keepsRemainder(defaultValue, params, pr) ==
  IF pr.res.status = "error" THEN PartialResult(pr.ctx, SuccessResult(defaultValue))
  ELSE pr

\* withDefault(mapping, defaultValue).parse, pr being [remainder, result]
withDefault_parse_step(defaultValue, params, pr) ==
  IF pr.res.status = "error" THEN PartialResult(params, SuccessResult(defaultValue))
  ELSE pr

withDefault_parse(mapping, defaultValue, params) ==
  withDefault_parse_step(defaultValue, params, Parse(mapping, params))

\* array(mapping).parse once the tail is parsed
array_parse_tail(head, tail) ==
  IF tail.res.status = "throw" THEN tail
  ELSE PartialResult(tail.ctx, Result_map2_cons(head.res, tail.res))

\* a plausible slip: the context of the failed element parse is returned
array_parse_step_keepsRemainder(ret, params, head) ==
  IF head.res.status = "throw" THEN head
  ELSE IF head.res.status = "error" THEN PartialResult(head.ctx, SuccessResult(Arr(<<>>)))
  ELSE IF head.ctx.progress = params.progress THEN Throws(params, "RangeError")
  ELSE array_parse_tail(head, Parse(ret, head.ctx))

\* array(mapping).parse, ret being the array mapping itself and head being
\* [remainder, head].  parse is a function of the mapping and of the
\* context's cursors, so when the element parse returns data with every
\* cursor where it was, ret.parse(remainder) repeats the call it is made
\* from: the recursion has no end and the engine raises RangeError (call
\* stack exhausted).
array_parse_step(ret, params, head) ==
  IF head.res.status = "throw" THEN head
  ELSE IF head.res.status = "error" THEN PartialResult(params, SuccessResult(Arr(<<>>)))
  ELSE IF head.ctx.progress = params.progress THEN Throws(params, "RangeError")
  ELSE array_parse_tail(head, Parse(ret, head.ctx))

array_parse(ret, params) == array_parse_step(ret, params, Parse(ret.inner, params))

\* the function object(mappings).parse binds over val for field key:
\* PartialResult.map(tk => { pt[key] = tk; return pt }, mappings[key].parse(params)),
\* field being mappings[key].parse(params)
object_parse_field(key, pt, field) ==
  PartialResult_map(field, SetProp(pt, key, field.res.data))

\* the forEach of object(mappings).parse from field i on, [params, val] being
\* the two variables of the loop; next is their value after field i
RECURSIVE object_parse_from(_, _, _, _)
object_parse_next(m, i, next) == object_parse_from(m, i + 1, next.ctx, next.res)

object_parse_from(m, i, params, val) ==
  IF i > Len(m.fieldNames) THEN PartialResult(params, val)
  ELSE object_parse_next(m, i,
         PartialResult_bind(
           PartialResult(params, val),
           object_parse_field(m.fieldNames[i], val.data, Parse(m.fields[i], params))))

object_parse(m, initialParams) ==
  object_parse_from(m, 1, initialParams, SuccessResult(Obj(<<>>)))

\* value => ({ ...value, type: d }) mapped over mappings[d].parse(remainder)
taggedUnion_parse_merge(d, variant) ==
  PartialResult_map(variant, SetProp(Spread(variant.res.data), TypeName, d))

\* taggedUnion(tag, mappings).parse, tagged being [remainder, rd] and i the
\* place of d among the keys of mappings (0: none).  mappings[d] is then
\* undefined, and reading its parse raises TypeError.
taggedUnion_parse_variant(m, params, tagged, i) ==
  IF HasData(tagged.res) /\ i = 0 THEN Throws(params, "TypeError")
  ELSE PartialResult_bind(
         tagged,
         taggedUnion_parse_merge(tagged.res.data, Parse(m.fields[i], tagged.ctx)))

taggedUnion_parse_step(m, params, tagged) ==
  taggedUnion_parse_variant(m, params, tagged,
                            IndexOf(m.fieldNames, PropertyKey(tagged.res.data)))

taggedUnion_parse(m, params) == taggedUnion_parse_step(m, params, Parse(m.tag, params))

Parse(m, params) ==
  CASE m.kind = "prim" -> prim_parse(m.key, params)
    [] m.kind = "string" -> string_parse(m.key, params)
    [] m.kind = "integer" -> integer_parse(m.key, params)
    [] m.kind = "number" -> number_parse(m.key, params)
    [] m.kind = "enum" -> enum_parse(m.values, m.key, params)
    [] m.kind = "boolean" -> boolean_parse(m.key, params)
    [] m.kind = "const" -> pure_parse(m.value, params)
    [] m.kind = "optional" -> optional_parse(m.inner, params)
    [] m.kind = "default" -> withDefault_parse(m.inner, m.defaultValue, params)
    [] m.kind = "array" -> array_parse(m, params)
    [] m.kind = "object" -> object_parse(m, params)
    [] m.kind = "union" -> taggedUnion_parse(m, params)

\* the warnings runParse adds, one for each key of remainingKeys
RemainingWarnings(keys) ==
  [i \in 1..Len(keys) |-> Msg("Key has remaining unparsed instances", keys[i], <<>>)]

\* runParse once the mapping's parse has returned pr = [remainder, result]:
\* a record of the Result returned and, for the properties about it, of
\* remainder
runParse_step(pr) ==
  PartialResult(pr.ctx, Result_addWarnings(pr.res, RemainingWarnings(remainingKeys(pr.ctx))))

runParse(mapping, params) == runParse_step(Parse(mapping, fromUrlSearchParams(params)))

(***************************************************************************)
(* Serialization.  Every serialize function of the library appends to the  *)
(* URLSearchParams object it is given and returns that same object, so the *)
(* result is its content after the call: [thrown, params], thrown when an  *)
(* exception left the call (params is then what had been appended).        *)
(***************************************************************************)
Done(params) == [thrown |-> FALSE, params |-> params]

Raised(params) == [thrown |-> TRUE, params |-> params]

\* value === defaultValue.  Arrays and objects are compared by identity; a
\* value built apart from the default is a different object.
StrictEquals(a, b) ==
  CASE a.t # b.t -> FALSE
    [] a.t = "undefined" -> TRUE
    [] a.t = "number" -> a.n = b.n /\ ~isNaN(a.n)
    [] a.t \in {"string", "boolean"} -> a = b
    [] OTHER -> FALSE

RECURSIVE Serialize(_, _, _)

\* the place of the first pair of key in params
FirstOf(params, key) ==
  CHOOSE i \in 1..Len(params) :
    params[i][1] = key /\ \A j \in 1..(i - 1) : params[j][1] # key

\* a plausible slip: params.set(key, value) for params.append(key, value);
\* set replaces the first pair of the key and deletes its other pairs
prim_serialize_set(key, value, params) ==
  IF \A i \in 1..Len(params) : params[i][1] # key
  THEN Done(Append(params, <<key, value.s>>))
  ELSE Done(SubSeq(params, 1, FirstOf(params, key) - 1)
              \o <<<<key, value.s>>>>
              \o SelectSeq(SubSeq(params, FirstOf(params, key) + 1, Len(params)),
                           LAMBDA pair : pair[1] # key))

prim_serialize(key, value, params) == Done(Append(params, <<key, value.s>>))

string_serialize_step(key, serializable, params) ==
  IF ~serializable.ok THEN Raised(params)
  ELSE prim_serialize(key, Str(serializable.s), params)

string_serialize(key, value, params) ==
  string_serialize_step(key, encodeURIComponent(value.s), params)

\* integer(key) and number(key): n => n.toString()
number_serialize(key, value, params) ==
  string_serialize(key, Str(toString(value.n)), params)

\* makeEnum: (x) => x
enum_serialize(key, value, params) == string_serialize(key, value, params)

boolean_serialize(key, value, params) ==
  enum_serialize(key, Str(IF value.b THEN TrueLiteral ELSE FalseLiteral), params)

optional_serialize(mapping, value, params) ==
  IF value = Undefined THEN Done(params) ELSE Serialize(mapping, value, params)

withDefault_serialize(mapping, defaultValue, value, params) ==
  IF StrictEquals(value, defaultValue) THEN Done(params)
  ELSE Serialize(mapping, value, params)

\* ret.serialize(tail, mapping.serialize(head, params)), first being the
\* inner call
array_serialize_tail(ret, tail, first) ==
  IF first.thrown THEN first ELSE Serialize(ret, Arr(tail), first.params)

\* const [head, ...tail] = value, head being undefined for the empty array
array_serialize_step(ret, head, tail, params) ==
  IF head = Undefined THEN Done(params)
  ELSE array_serialize_tail(ret, tail, Serialize(ret.inner, head, params))

array_serialize(ret, value, params) ==
  IF value.xs = <<>> THEN array_serialize_step(ret, Undefined, <<>>, params)
  ELSE array_serialize_step(ret, Head(value.xs), Tail(value.xs), params)

\* the forEach of object(mappings).serialize from field i on; one is the
\* result of field i
RECURSIVE object_serialize_from(_, _, _, _)
object_serialize_next(m, i, value, one) ==
  IF one.thrown THEN one ELSE object_serialize_from(m, i + 1, value, one.params)

object_serialize_from(m, i, value, params) ==
  IF i > Len(m.fieldNames) THEN Done(params)
  ELSE object_serialize_next(m, i, value,
         Serialize(m.fields[i], GetProp(value, m.fieldNames[i]), params))

\* a plausible slip: the fields are written in the order of the properties
\* of the value
RECURSIVE object_serialize_props(_, _, _, _)
object_serialize_props_next(m, i, value, one) ==
  IF one.thrown THEN one ELSE object_serialize_props(m, i + 1, value, one.params)

object_serialize_props(m, i, value, params) ==
  IF i > Len(value.props) THEN Done(params)
  ELSE object_serialize_props_next(m, i, value,
         Serialize(m.fields[IndexOf(m.fieldNames, value.props[i][1])],
                   value.props[i][2], params))

object_serialize_byValueOrder(m, value, params) ==
  object_serialize_props(m, 1, value, params)

object_serialize(m, value, params) == object_serialize_from(m, 1, value, params)

\* mappings[value.type].serialize(value, params) after tag.serialize; i is
\* the place of value.type among the keys of mappings (0: none, TypeError)
taggedUnion_serialize_variant(m, i, value, tagged) ==
  IF tagged.thrown THEN tagged
  ELSE IF i = 0 THEN Raised(tagged.params)
  ELSE Serialize(m.fields[i], value, tagged.params)

taggedUnion_serialize_step(m, type, value, params) ==
  taggedUnion_serialize_variant(m, IndexOf(m.fieldNames, PropertyKey(type)), value,
                                Serialize(m.tag, type, params))

taggedUnion_serialize(m, value, params) ==
  taggedUnion_serialize_step(m, GetProp(value, TypeName), value, params)

Serialize(m, value, params) ==
  CASE m.kind = "prim" -> prim_serialize(m.key, value, params)
    [] m.kind = "string" -> string_serialize(m.key, value, params)
    [] m.kind \in {"integer", "number"} -> number_serialize(m.key, value, params)
    [] m.kind = "enum" -> enum_serialize(m.key, value, params)
    [] m.kind = "boolean" -> boolean_serialize(m.key, value, params)
    [] m.kind = "const" -> Done(params)
    [] m.kind = "optional" -> optional_serialize(m.inner, value, params)
    [] m.kind = "default" -> withDefault_serialize(m.inner, m.defaultValue, value, params)
    [] m.kind = "array" -> array_serialize(m, value, params)
    [] m.kind = "object" -> object_serialize(m, value, params)
    [] m.kind = "union" -> taggedUnion_serialize(m, value, params)

(***************************************************************************)
(* The mappings, inputs and values of the model                            *)
(***************************************************************************)
\* the longest URLSearchParams given as input, in <<key, value>> pairs
MaxParams == 3

\* the most get and parse calls applied to the contexts of one input
MaxOps == 2

\* the longest array value that is serialized
MaxLen == 2

\* the raw values "1", "2", "x", "%" and "4.5"
One == <<49>>

Two == <<50>>

Ex == <<120>>

Percent == <<37>>

FourPointFive == <<52, 46, 53>>

\* the property names "num", "str", "p", "q", "x", "y", "v"
NameNum == <<110, 117, 109>>

NameStr == <<115, 116, 114>>

NameP == <<112>>

NameQ == <<113>>

NameX == <<120>>

NameY == <<121>>

NameV == <<118>>

Keys == {"tag", "n"}

Pairs ==
  {<<"tag", v>> : v \in {One, Two, Ex, Percent, FourPointFive}}
    \cup {<<"n", v>> : v \in {One, Two}}

Inputs == UNION {[1..len -> Pairs] : len \in 0..MaxParams}

Mappings ==
  { string("tag"),
    integer("tag"),
    number("n"),
    makeEnum(<<One, Two>>, "tag"),
    boolean("n"),
    makeConst(Num(Int2Num(1))),
    optional(integer("tag")),
    optional(object(<<NameP, NameQ>>, <<integer("tag"), integer("n")>>)),
    withDefault(integer("tag"), Num(Int2Num(1))),
    array(integer("tag")),
    object(<<NameNum>>, <<number("n")>>),
    object(<<NameP, NameQ>>, <<string("tag"), string("n")>>),
    object(<<NameNum, NameStr>>, <<number("tag"), string("tag")>>),
    object(<<NameX, NameY>>, <<optional(string("tag")), string("tag")>>),
    object(<<NameX, NameY>>,
           <<withDefault(integer("tag"), Num(Int2Num(1))), optional(integer("tag"))>>),
    taggedUnion(makeEnum(<<One, Two>>, "tag"), <<One, Two>>,
                <<object(<<NameV>>, <<integer("n")>>), object(<<>>, <<>>)>>),
    taggedUnion(makeEnum(<<One, Two>>, "tag"), <<One, Two>>,
                <<object(<<NameP, NameQ>>, <<string("n"), string("n")>>),
                  object(<<>>, <<>>)>>) }

SeqsUpTo(S, len) == UNION {[1..k -> S] : k \in 0..len}

\* values of the type of mapping m
RECURSIVE ValuesOf(_)
RECURSIVE ObjectValuesFrom(_, _)
ObjectValuesFrom(m, i) ==
  IF i > Len(m.fieldNames) THEN {<<>>}
  ELSE {<<<<m.fieldNames[i], v>>>> \o rest :
          v \in ValuesOf(m.fields[i]), rest \in ObjectValuesFrom(m, i + 1)}

ValuesOf(m) ==
  CASE m.kind \in {"prim", "string"} -> {Str(One), Str(Ex), Str(Percent)}
    [] m.kind \in {"integer", "number"} -> {Num(Int2Num(1)), Num(Int2Num(2))}
    [] m.kind = "enum" -> {Str(m.values[i]) : i \in 1..Len(m.values)}
    [] m.kind = "boolean" -> {Bool(TRUE), Bool(FALSE)}
    [] m.kind = "const" -> {m.value}
    [] m.kind = "optional" -> ValuesOf(m.inner) \cup {Undefined}
    [] m.kind = "default" -> ValuesOf(m.inner) \cup {m.defaultValue}
    [] m.kind = "array" -> {Arr(xs) : xs \in SeqsUpTo(ValuesOf(m.inner), MaxLen)}
    [] m.kind = "object" -> {Obj(props) : props \in ObjectValuesFrom(m, 1)}
    [] m.kind = "union" ->
         UNION {{SetProp(v, TypeName, Str(m.fieldNames[i])) : v \in ValuesOf(m.fields[i])} :
                  i \in 1..Len(m.fieldNames)}

\* equality of two values as the tests compare them (toEqual): objects are
\* equal when they have the same properties with equal values, in any order
RECURSIVE ValueEquals(_, _)
ValueEquals(a, b) ==
  CASE a.t # b.t -> FALSE
    [] a.t = "array" ->
         /\ Len(a.xs) = Len(b.xs)
         /\ \A i \in 1..Len(a.xs) : ValueEquals(a.xs[i], b.xs[i])
    [] a.t = "object" ->
         /\ {a.props[i][1] : i \in 1..Len(a.props)} = {b.props[i][1] : i \in 1..Len(b.props)}
         /\ \A i \in 1..Len(a.props) :
              ValueEquals(a.props[i][2], GetProp(b, a.props[i][1]))
    [] OTHER -> a = b

(***************************************************************************)
(* The state machine: one mapping and one URLSearchParams object, and the  *)
(* calls a program makes on them.                                          *)
(*   mapping  the mapping                                                  *)
(*   url      the URLSearchParams object (input of parse, accumulator of   *)
(*            serialize)                                                   *)
(*   ctx      the context the program holds (after runParse: the context   *)
(*            its parse ended in), NoContext when there is none            *)
(*   res      the Result (or exception) of the last call                   *)
(*   last     the last call: [op, key, before], before being the context   *)
(*            the call was made on                                         *)
(*   given    [from, value]: the value url was serialized from, from being *)
(*            "none", "value" (a value of the type) or "parse" (the        *)
(*            payload of a top-level parse)                                *)
(*   nops     the number of get and parse calls made on the contexts       *)
(*   operands the last call of an operator of Result: [op, ...] with the   *)
(*            Results and functions it was given                           *)
(*   outcome  the Result that call returned                                *)
(***************************************************************************)
VARIABLES mapping, url, ctx, res, last, given, nops, operands, outcome

vars == <<mapping, url, ctx, res, last, given, nops, operands, outcome>>

NoContext == [t |-> "none"]

NoResult == [status |-> "none", data |-> Undefined, warnings |-> <<>>, errors |-> <<>>]

Call(op, key, before) == [op |-> op, key |-> key, before |-> before]

NoOperands == [op |-> "none"]

Init ==
  /\ mapping \in Mappings
  /\ url \in Inputs
  /\ ctx = NoContext
  /\ res = NoResult
  /\ last = Call("init", "", NoContext)
  /\ given = [from |-> "none", value |-> Undefined]
  /\ nops = 0
  /\ operands = NoOperands
  /\ outcome = NoResult

\* the program receives the pair pr = [context, result] of a call; after an
\* exception it still holds the context it had
Returned(pr) ==
  /\ ctx' = IF pr.res.status = "throw" THEN ctx ELSE pr.ctx
  /\ res' = pr.res

\* the URLSearchParams object after a serialize call
Serialized(out) ==
  /\ url' = out.params
  /\ res' = IF out.thrown THEN Thrown("Error") ELSE NoResult

\* SearchParamContext.fromUrlSearchParams(url)
Create ==
  /\ last.op \in {"init", "serialize"}
  /\ ctx' = fromUrlSearchParams(url)
  /\ res' = NoResult
  /\ last' = Call("create", "", NoContext)
  /\ UNCHANGED <<mapping, url, given, nops, operands, outcome>>

\* ctx.get(key)
Get(key) ==
  /\ last.op \in {"create", "get", "parse"}
  /\ nops < MaxOps
  /\ Returned(SearchParamContext_get(ctx, key))
  /\ last' = Call("get", key, ctx)
  /\ nops' = nops + 1
  /\ UNCHANGED <<mapping, url, given, operands, outcome>>

\* mapping.parse(ctx)
MappingParse ==
  /\ last.op \in {"create", "get", "parse"}
  /\ nops < MaxOps
  /\ Returned(Parse(mapping, ctx))
  /\ last' = Call("parse", "", ctx)
  /\ nops' = nops + 1
  /\ UNCHANGED <<mapping, url, given, operands, outcome>>

\* runParse(mapping, url); ctx records the context its parse ended in
RunParse ==
  /\ last.op \in {"init", "reserialize"}
  /\ Returned(runParse(mapping, url))
  /\ last' = Call("runParse", "", NoContext)
  /\ UNCHANGED <<mapping, url, given, nops, operands, outcome>>

\* mapping.serialize(value, url) on the empty URLSearchParams
SerializeValue(value) ==
  /\ last.op = "init"
  /\ url = <<>>
  /\ Serialized(Serialize(mapping, value, url))
  /\ last' = Call("serialize", "", NoContext)
  /\ given' = [from |-> "value", value |-> value]
  /\ UNCHANGED <<mapping, ctx, nops, operands, outcome>>

\* mapping.serialize(res.data, new URLSearchParams()) with the payload of
\* runParse
Reserialize ==
  /\ last.op = "runParse"
  /\ given.from = "none"
  /\ HasData(res)
  /\ Serialized(Serialize(mapping, res.data, <<>>))
  /\ last' = Call("reserialize", "", NoContext)
  /\ given' = [from |-> "parse", value |-> res.data]
  /\ ctx' = NoContext
  /\ UNCHANGED <<mapping, nops, operands, outcome>>

\* mapping.serialize(value, url) once more, with the value and the
\* URLSearchParams object of the first call
SerializeAgain ==
  /\ last.op = "serialize"
  /\ given.from = "value"
  /\ res.status # "throw"
  /\ Serialized(Serialize(mapping, given.value, url))
  /\ last' = Call("serializeAgain", "", NoContext)
  /\ given' = [given EXCEPT !.from = "again"]
  /\ UNCHANGED <<mapping, ctx, nops, operands, outcome>>

Next ==
  \/ Create
  \/ \E key \in Keys : Get(key)
  \/ MappingParse
  \/ RunParse
  \/ \E value \in ValuesOf(mapping) : SerializeValue(value)
  \/ SerializeAgain
  \/ Reserialize

Spec == Init /\ [][Next]_vars

(***************************************************************************)
(* Mappings outside the ones above: arrays of elements that can succeed    *)
(* without reading an occurrence, and a tagged union whose tag accepts a   *)
(* value that has no variant.                                              *)
(***************************************************************************)
EdgeMappings ==
  { array(makeConst(Num(Int2Num(1)))),
    array(optional(string("tag"))),
    array(withDefault(integer("tag"), Num(Int2Num(1)))),
    taggedUnion(makeEnum(<<One, Two>>, "tag"), <<One>>,
                <<object(<<NameV>>, <<integer("n")>>)>>) }

InitEdge ==
  /\ mapping \in EdgeMappings
  /\ url \in Inputs
  /\ ctx = NoContext
  /\ res = NoResult
  /\ last = Call("init", "", NoContext)
  /\ given = [from |-> "none", value |-> Undefined]
  /\ nops = 0
  /\ operands = NoOperands
  /\ outcome = NoResult

SpecEdge == InitEdge /\ [][Next]_vars

(***************************************************************************)
(* The operators of Result, applied to Results and functions that a        *)
(* program builds.  The Results of one operand carry messages of their     *)
(* own, so that the origin and the order of the messages of a result show. *)
(***************************************************************************)
\* the longest list of warnings of an operand
MaxNotes == 1

Payloads == {Num(Int2Num(1)), Num(Int2Num(2))}

\* the lists of 1..MaxNotes warnings, and of 0..MaxNotes warnings, of the
\* operand named who
WarningsOf(who) == {[i \in 1..len |-> Msg("warning", who, i)] : len \in 1..MaxNotes}

NotesOf(who) == WarningsOf(who) \cup {<<>>}

ResultsOf(who) ==
  {SuccessResult(data) : data \in Payloads}
    \cup {WarningResult(data, ws) : data \in Payloads, ws \in WarningsOf(who)}
    \cup {[ErrorResult(<<Msg("error", who, <<>>)>>) EXCEPT !.warnings = ws] : ws \in NotesOf(who)}

\* the functions (u: U) => Result<V> of the operand named who
BindersOf(who) == [Payloads -> ResultsOf(who)]

\* the functions (u: U) => V
Mappers == [Payloads -> Payloads]

NoMapping == [kind |-> "none"]

InitResult ==
  /\ mapping = NoMapping
  /\ url = <<>>
  /\ ctx = NoContext
  /\ res = NoResult
  /\ last = Call("init", "", NoContext)
  /\ given = [from |-> "none", value |-> Undefined]
  /\ nops = 0
  /\ operands = NoOperands
  /\ outcome = NoResult

programVars == <<mapping, url, ctx, res, last, given, nops>>

\* Result.either(a, b)
Either(a, b) ==
  /\ operands = NoOperands
  /\ operands' = [op |-> "either", a |-> a, b |-> b]
  /\ outcome' = Result_either(a, b)
  /\ UNCHANGED programVars

\* Result.map(f, r)
Map(f, r) ==
  /\ operands = NoOperands
  /\ operands' = [op |-> "map", f |-> f, r |-> r]
  /\ outcome' = Result_map(r, f[r.data])
  /\ UNCHANGED programVars

\* Result.bind(f, r)
Bind(f, r) ==
  /\ operands = NoOperands
  /\ operands' = [op |-> "bind", f |-> f, r |-> r]
  /\ outcome' = Result_bind(r, f[r.data])
  /\ UNCHANGED programVars

\* Result.bind(g, outcome), outcome being the result of Result.bind(f, r)
BindNext(g) ==
  /\ operands.op = "bind"
  /\ operands' = [op |-> "bindNext", f |-> operands.f, r |-> operands.r, g |-> g]
  /\ outcome' = Result_bind(outcome, g[outcome.data])
  /\ UNCHANGED programVars

\* the functions (u1: U1, u2: U2) => V
Mappers2 == [Payloads \X Payloads -> Payloads]

\* Result.map2(f, r1, r2)
Map2(f, r1, r2) ==
  /\ operands = NoOperands
  /\ operands' = [op |-> "map2", f |-> f, r1 |-> r1, r2 |-> r2]
  /\ outcome' = Result_map2(r1, r2, f[<<r1.data, r2.data>>])
  /\ UNCHANGED programVars

NextResult ==
  \/ \E a \in ResultsOf("a"), b \in ResultsOf("b") : Either(a, b)
  \/ \E f \in Mappers, r \in ResultsOf("r") : Map(f, r)
  \/ \E f \in BindersOf("f"), r \in ResultsOf("r") : Bind(f, r)
  \/ \E f \in Mappers2, r1 \in ResultsOf("r1"), r2 \in ResultsOf("r2") : Map2(f, r1, r2)
  \/ \E g \in BindersOf("g") : BindNext(g)

SpecResult == InitResult /\ [][NextResult]_vars

(***************************************************************************)
(* Properties                                                              *)
(***************************************************************************)
IsFresh(params) == params = fromUrlSearchParams(url)

\* the number of occurrences of key the reads leading to params returned
ReadsOf(params, key) ==
  Cardinality({i \in 1..Len(params.reads) : params.reads[i][1] = key})

\* the keys of params that have occurrences no read has reached
Leftover(params) ==
  {key \in DOMAIN params.progress : params.progress[key] < Len(params.valueMap[key])}

\* C1: round-trip law.  Serializing a value of the mapping's type into an
\* empty URLSearchParams and parsing the result with the same mapping, on
\* the fresh context of that result, returns success with a payload equal to
\* the value.
C1_RoundTrip ==
  (given.from = "value" /\ last.op = "parse" /\ IsFresh(last.before)) =>
    /\ res.status = "success"
    /\ ValueEquals(res.data, given.value)

\* C2: each occurrence is used exactly once.  When runParse returns success
\* (no warnings), every key's cursor in the final context equals the number
\* of the key's occurrences, and the reads that led to the final context
\* returned every occurrence of every key once and none twice.
C2_UsedExactlyOnce ==
  (last.op = "runParse" /\ res.status = "success") =>
    /\ \A key \in DOMAIN ctx.progress :
         /\ ctx.progress[key] = Len(ctx.valueMap[key])
         /\ \A index \in 0..(Len(ctx.valueMap[key]) - 1) :
              Cardinality({i \in 1..Len(ctx.reads) : ctx.reads[i] = <<key, index>>}) = 1
    /\ Len(ctx.reads) = Len(url)

\* runParse has returned success for an input of two occurrences or more,
\* read by the mapping
C2_Witness ==
  /\ last.op = "runParse"
  /\ res.status = "success"
  /\ Len(url) >= 2
  /\ Len(ctx.reads) >= 2

\* C3: serialization normalizes.  When runParse of an input returns a
\* payload (success or warning), serializing the payload into an empty
\* URLSearchParams and running runParse on the result returns success, with
\* no warnings, and the same payload.
C3_Normalizes ==
  (given.from = "parse" /\ last.op = "runParse") =>
    /\ res.status = "success"
    /\ res.warnings = <<>>
    /\ ValueEquals(res.data, given.value)

\* inner is what m.parse(ctx) returns, for the optional(m).parse(ctx) that
\* the last call made
C4_After(inner) ==
  /\ inner.res.status = "error" =>
       /\ res = SuccessResult(Undefined)
       /\ ctx.progress = last.before.progress
  /\ HasData(inner.res) =>
       /\ res = inner.res
       /\ ctx = inner.ctx

\* C4: optional(m).parse(ctx) returns success(undefined) and a context with
\* the cursors of ctx when m.parse(ctx) returns an error, whatever m
\* consumed before it failed; it returns the context and the result of m
\* when m returns success or warning.
C4_OptionalFrame ==
  (last.op = "parse" /\ mapping.kind = "optional") =>
    C4_After(Parse(mapping.inner, last.before))

C4_InnerConsumedThenFailed(inner) ==
  /\ inner.res.status = "error"
  /\ inner.ctx.progress # last.before.progress

\* optional(m).parse has returned after m failed having advanced a cursor
C4_Witness ==
  /\ last.op = "parse"
  /\ mapping.kind = "optional"
  /\ C4_InnerConsumedThenFailed(Parse(mapping.inner, last.before))

\* the fields of an object mapping that read one key directly
IsRequired(m) == m.kind \in {"prim", "string", "integer", "number", "enum", "boolean"}

\* C5: object(mappings).parse collects the errors of every failing field.
\* Every required field whose key is absent from the input has a message in
\* the error list of the result, also when an earlier field has failed.
C5_AllFieldErrors ==
  (last.op = "parse" /\ mapping.kind = "object") =>
    \A i \in 1..Len(mapping.fields) :
      (IsRequired(mapping.fields[i]) /\ mapping.fields[i].key \notin DOMAIN last.before.progress) =>
        /\ res.status = "error"
        /\ \E j \in 1..Len(res.errors) : res.errors[j].key = mapping.fields[i].key

\* the context after n consecutive parses of m, from params
RECURSIVE ParseTimes(_, _, _)
ParseTimes(m, params, n) ==
  IF n = 0 THEN params ELSE Parse(m, ParseTimes(m, params, n - 1)).ctx

C6_Element(pr, x) == HasData(pr.res) /\ pr.res.data = x

\* tag=1&tag=2&tag=x
TagOneTwoEx == <<<<"tag", One>>, <<"tag", Two>>, <<"tag", Ex>>>>

\* C6: array(m).parse, when it returns, never returns an error: its payload
\* is the payloads of the consecutive element parses that returned one, the
\* next element parse returns an error, and its context is the context that
\* failing parse was made on.  For tag=1&tag=2&tag=x and integer elements the
\* payload is [1, 2], the cursor of tag is 2 and remainingKeys reports tag.
C6_ArrayParse ==
  (last.op = "parse" /\ mapping.kind = "array" /\ res.status # "throw") =>
    /\ res.status \in {"success", "warning"}
    /\ res.data.t = "array"
    /\ \A i \in 1..Len(res.data.xs) :
         C6_Element(Parse(mapping.inner, ParseTimes(mapping.inner, last.before, i - 1)),
                    res.data.xs[i])
    /\ ctx = ParseTimes(mapping.inner, last.before, Len(res.data.xs))
    /\ Parse(mapping.inner, ctx).res.status = "error"
    /\ (url = TagOneTwoEx /\ mapping = array(integer("tag")) /\ IsFresh(last.before)) =>
         /\ res = SuccessResult(Arr(<<Num(Int2Num(1)), Num(Int2Num(2))>>))
         /\ ctx.progress["tag"] = 2
         /\ remainingKeys(ctx) = <<"tag">>

\* array(integer("tag")).parse has returned for tag=1&tag=2&tag=x
C6_Witness ==
  /\ last.op = "parse"
  /\ mapping = array(integer("tag"))
  /\ url = TagOneTwoEx
  /\ IsFresh(last.before)
  /\ res.status # "throw"

\* n=1&n=2
NOneTwo == <<<<"n", One>>, <<"n", Two>>>>

\* the warnings of result from place from on that report key as remaining
C7_Reports(result, from, key) ==
  {i \in from..Len(result.warnings) :
     result.warnings[i] = Msg("Key has remaining unparsed instances", key, <<>>)}

\* pr is what mapping.parse returned, for the runParse that the last call
\* made
C7_After(pr) ==
  /\ res.data = pr.res.data
  /\ res.errors = pr.res.errors
  /\ SubSeq(res.warnings, 1, Len(pr.res.warnings)) = pr.res.warnings
  /\ Len(res.warnings) = Len(pr.res.warnings) + Cardinality(Leftover(pr.ctx))
  /\ \A key \in DOMAIN pr.ctx.progress :
       Cardinality(C7_Reports(res, Len(pr.res.warnings) + 1, key))
         = IF key \in Leftover(pr.ctx) THEN 1 ELSE 0
  /\ HasData(pr.res) => res.status = IF res.warnings = <<>> THEN "success" ELSE "warning"

\* C7: runParse(mapping, input), when the mapping's parse returns, returns
\* the payload of the mapping's parse and adds to its warnings exactly one
\* warning for each key whose cursor in the final context is below the number
\* of the key's occurrences.  For object({num: number("n")}) and n=1&n=2 the
\* payload is {num: 1} and the one warning reports n.
C7_RunParseWarnings ==
  (last.op = "runParse" /\ res.status # "throw") =>
    /\ C7_After(Parse(mapping, fromUrlSearchParams(url)))
    /\ (mapping = object(<<NameNum>>, <<number("n")>>) /\ url = NOneTwo) =>
         res = WarningResult(Obj(<<<<NameNum, Num(Int2Num(1))>>>>),
                             <<Msg("Key has remaining unparsed instances", "n", <<>>)>>)

\* runParse(object({num: number("n")}), n=1&n=2) has returned
C7_Witness ==
  /\ last.op = "runParse"
  /\ mapping = object(<<NameNum>>, <<number("n")>>)
  /\ url = NOneTwo
  /\ res.status = "warning"

\* C8: no parse throws.  A parse of a mapping returns a Result, with status
\* success, warning or error; string(key).parse on an occurrence that
\* decodeURIComponent rejects returns an error.
C8_NoThrow ==
  (last.op = "parse") => res.status \in {"success", "warning", "error"}

\* C9 as stated: in every context reached by get calls and parses, the
\* cursor of every key is at most the number of the key's occurrences.
C9_CursorWithinLength ==
  (ctx # NoContext) =>
    \A key \in DOMAIN ctx.progress : ctx.progress[key] <= Len(ctx.valueMap[key])

\* C9 amended: in every context reached by get calls and parses, the cursor
\* of every key is the number of the key's occurrences that the reads
\* returned plus the number of reads that found the key exhausted.  The
\* occurrences returned are at most the key's occurrences, so the cursor is
\* within the length exactly as long as no read found the key exhausted.
C9_CursorCountsReads ==
  (ctx # NoContext) =>
    \A key \in DOMAIN ctx.progress :
      /\ ctx.progress[key] = ReadsOf(ctx, key) + ctx.misses[key]
      /\ ReadsOf(ctx, key) <= Len(ctx.valueMap[key])
      /\ ctx.misses[key] > 0 => ctx.progress[key] > Len(ctx.valueMap[key])

\* a context with a cursor beyond the occurrences of its key
C9_Witness ==
  /\ ctx # NoContext
  /\ \E key \in DOMAIN ctx.progress : ctx.progress[key] > Len(ctx.valueMap[key])

C10_Unread(this, key) ==
  key \in DOMAIN this.progress /\ this.progress[key] < Len(this.valueMap[key])

C10_Exhausted(this, key) ==
  key \in DOMAIN this.progress /\ this.progress[key] >= Len(this.valueMap[key])

\* C10: get(key) on a context.  When the key has an unread occurrence it
\* returns success(the occurrence at the cursor) and a context with the
\* key's cursor advanced by one and the other cursors unchanged; when the
\* key is absent from the input it returns an error and the context itself;
\* when the key is exhausted it returns an error and a context with the
\* key's cursor advanced by one.  The occurrences are never changed.
C10_GetContract ==
  (last.op = "get") =>
    /\ C10_Unread(last.before, last.key) =>
         /\ res = SuccessResult(
                    Str(last.before.valueMap[last.key][last.before.progress[last.key] + 1]))
         /\ ctx.progress = [last.before.progress EXCEPT ![last.key] = @ + 1]
    /\ last.key \notin DOMAIN last.before.progress =>
         /\ res.status = "error"
         /\ ctx = last.before
    /\ C10_Exhausted(last.before, last.key) =>
         /\ res.status = "error"
         /\ ctx.progress = [last.before.progress EXCEPT ![last.key] = @ + 1]
    /\ ctx.valueMap = last.before.valueMap

\* get has returned for a key that was exhausted
C10_Witness ==
  /\ last.op = "get"
  /\ C10_Exhausted(last.before, last.key)

\* the notes of Result.either that both branches produced data
BothProducedData == {FewerWarnings, Arbitrary, ArbitraryBothWarn}

C11_BothHaveData ==
  operands.op = "either" /\ HasData(operands.a) /\ HasData(operands.b)

\* C11 as stated: when both a and b carry data, Result.either(a, b) has
\* status warning, the payload of a, and a warning noting that both branches
\* produced data.
C11_LeftPayload ==
  C11_BothHaveData =>
    /\ outcome.status = "warning"
    /\ outcome.data = operands.a.data
    /\ \E i \in 1..Len(outcome.warnings) : outcome.warnings[i] \in BothProducedData

\* C11 amended: when both a and b carry data, Result.either(a, b) has status
\* warning and its first warning notes that both branches produced data; the
\* payload is that of b when a is a warning and b a success (the value with
\* fewer warnings), and that of a otherwise; the warnings of the operand that
\* has some follow the note (those of a before those of b).
C11_FewerWarningsPayload ==
  C11_BothHaveData =>
    /\ outcome.status = "warning"
    /\ outcome.data =
         IF operands.a.status = "warning" /\ operands.b.status = "success"
         THEN operands.b.data ELSE operands.a.data
    /\ Head(outcome.warnings) \in BothProducedData
    /\ Tail(outcome.warnings) = operands.a.warnings \o operands.b.warnings

\* either has returned for a warning a and a success b of another payload
C11_Witness ==
  /\ C11_BothHaveData
  /\ operands.a.status = "warning"
  /\ operands.b.status = "success"
  /\ operands.a.data # operands.b.data

\* tagged is what tag.parse(params) returned, for the taggedUnion parse
\* that the last call made
C12_After(tagged) ==
  /\ (tagged.res.status = "error") => res.status = "error"
  /\ (HasData(tagged.res)
        /\ IndexOf(mapping.fieldNames, PropertyKey(tagged.res.data)) = 0) =>
       res.status = "error"

\* C12: taggedUnion(tag, mappings).parse returns an error Result when the
\* parse of tag returns an error, and when the parse of tag returns a value
\* that is not a key of mappings.
C12_UnionErrors ==
  (last.op = "parse" /\ mapping.kind = "union") =>
    C12_After(Parse(mapping.tag, last.before))

\* the pairs mapping.serialize(value, ...) appends
Written(m, value) == Serialize(m, value, <<>>).params

\* C13 as stated: serialize leaves the accumulator it is given unchanged, so
\* a second serialize call with the same value and the same accumulator
\* returns what the first returned.
C13_SerializeIsPure ==
  (last.op = "serializeAgain") => url = Written(mapping, given.value)

C13_After(written) ==
  /\ (last.op = "serialize") => url = written
  /\ (last.op = "serializeAgain") => url = written \o written

C13_ParseOf(pr) ==
  /\ res = pr.res
  /\ (res.status # "throw") => ctx = pr.ctx

\* C13 amended: serialize appends the pairs of the value to the
\* URLSearchParams object it is given, in place, and returns that object: a
\* second call with the same value and the same object leaves in it the
\* pairs of the value twice.  What is appended does not depend on what the
\* object held.  A parse depends on the mapping and the context alone.
C13_SerializeAppends ==
  /\ (given.from \in {"value", "again"} /\ res.status # "throw") =>
       C13_After(Written(mapping, given.value))
  /\ (last.op = "parse") => C13_ParseOf(Parse(mapping, last.before))

\* serialize has been called twice on one URLSearchParams object, with a
\* value that writes pairs
C13_Witness ==
  /\ last.op = "serializeAgain"
  /\ res.status # "throw"
  /\ url # <<>>

\* C14: every parse terminates.  No parse, of any mapping on any input,
\* recurses without end (which the engine ends by raising RangeError).
C14_ParseTerminates ==
  (last.op = "parse") => res # Thrown("RangeError")

\* value with its properties in the order perm
Reordered(value, perm) == Obj([i \in 1..Len(value.props) |-> value.props[perm[i]]])

\* C15: object(mappings).serialize writes the fields in the order of the keys
\* of mappings, whatever the order of the properties of the value: the value
\* with its properties in any other order gives the same pairs in the same
\* order.
C15_MappingOrder ==
  (last.op = "serialize" /\ mapping.kind = "object") =>
    \A perm \in Permutations(1..Len(given.value.props)) :
      Written(mapping, Reordered(given.value, perm)) = url

\* serialize has written the two fields of an object, for two keys
C15_Witness ==
  /\ last.op = "serialize"
  /\ mapping.kind = "object"
  /\ Len(url) = 2
  /\ url[1][1] # url[2][1]

\* an object mapping of two or more fields that each read one occurrence of
\* one and the same key
C16_SameKeyFields(m) ==
  /\ m.kind = "object"
  /\ Len(m.fields) >= 2
  /\ \A i \in 1..Len(m.fields) : IsRequired(m.fields[i]) /\ m.fields[i].key = m.fields[1].key

Canonical(k) == toString(Int2Num(k))

\* s is the occurrence integer(key).parse read
C17_After(s) ==
  /\ \A k \in 0..9 : (s = Canonical(k)) => res = SuccessResult(Num(Int2Num(k)))
  /\ (s = FourPointFive) =>
       /\ res.status = "warning"
       /\ res.data = Num(Int2Num(4))
       /\ Len(res.warnings) = 1
  /\ (s = Ex) => res.status = "error"
  /\ (res.status = "success") => Canonical(res.data.n.m) = s
  /\ (res.status = "warning") =>
       /\ res.data.n.k = "fin" /\ res.data.n.e = 0
       /\ toString(res.data.n) # s

\* C17: integer(key).parse on the next occurrence s of key returns
\* success(n) when s is the canonical string form of the integer n,
\* warning(n) with the integer read when s can be read as an integer and is
\* not its canonical form (4.5 gives 4), and an error when s cannot be read
\* as a number (x); serialize writes the canonical string form.
C17_IntegerParse ==
  /\ (last.op = "parse" /\ mapping.kind = "integer" /\ res.status # "throw"
        /\ C10_Unread(last.before, mapping.key)) =>
       C17_After(last.before.valueMap[mapping.key][last.before.progress[mapping.key] + 1])
  /\ (last.op = "serialize" /\ mapping.kind = "integer") =>
       url = <<<<mapping.key, toString(given.value.n)>>>>

\* integer(key).parse has returned a warning
C17_Witness ==
  /\ last.op = "parse"
  /\ mapping.kind = "integer"
  /\ res.status = "warning"

\* inner is what the inner mapping's parse returns on the context of the
\* last call
C18_After(inner) ==
  /\ inner.res.status = "error" =>
       /\ res = SuccessResult(mapping.defaultValue)
       /\ ctx = last.before
  /\ HasData(inner.res) =>
       /\ res = inner.res
       /\ ctx = inner.ctx

\* C18: withDefault(inner, d).parse returns success(d) and the context it
\* was given when inner's parse returns an error, and what inner's parse
\* returns otherwise; serialize writes nothing when the value is d and what
\* inner's serialize writes otherwise.
C18_DefaultParam ==
  /\ (last.op = "parse" /\ mapping.kind = "default") =>
       C18_After(Parse(mapping.inner, last.before))
  /\ (last.op = "serialize" /\ mapping.kind = "default") =>
       url = IF given.value = mapping.defaultValue THEN <<>>
             ELSE Written(mapping.inner, given.value)

\* withDefault(inner, d).parse has returned after inner failed having
\* advanced a cursor
C18_Witness ==
  /\ last.op = "parse"
  /\ mapping.kind = "default"
  /\ C4_InnerConsumedThenFailed(Parse(mapping.inner, last.before))

\* inner is f(payload), for the bind(f, r) that was called
C19_After(r, inner) ==
  /\ (r.status = "success") => outcome = inner
  /\ (r.status = "warning" /\ inner.status = "error") =>
       /\ outcome.status = "error"
       /\ outcome.errors = inner.errors
       /\ outcome.warnings = r.warnings \o inner.warnings
  /\ (r.status = "warning" /\ inner.status = "warning") =>
       outcome = WarningResult(inner.data, r.warnings \o inner.warnings)
  /\ (r.status = "warning" /\ inner.status = "success") =>
       outcome = WarningResult(inner.data, r.warnings)

\* C19: Result.bind(f, r).  An error r is returned unchanged; a success r
\* gives f(payload) as it is; a warning r gives, when f(payload) is an error,
\* an error with the errors of f(payload) and the warnings of r followed by
\* those of f(payload); when f(payload) is a warning, its payload with the
\* warnings of r followed by its own; when f(payload) is a success, its
\* payload with the warnings of r.
C19_BindRules ==
  (operands.op = "bind") =>
    /\ (operands.r.status = "error") => outcome = operands.r
    /\ HasData(operands.r) => C19_After(operands.r, operands.f[operands.r.data])

C19_WarningThenError(r, inner) ==
  /\ r.status = "warning"
  /\ inner.status = "error"
  /\ inner.warnings # <<>>

\* bind has returned for a warning r whose f(payload) is an error that
\* carries warnings
C19_Witness ==
  /\ operands.op = "bind"
  /\ HasData(operands.r)
  /\ C19_WarningThenError(operands.r, operands.f[operands.r.data])

\* x => bind(g, f(x)) applied to the payload of r
C20_Composed(f, g, fx) == Result_bind(fx, g[fx.data])

\* C20: the monad laws of Result.bind and Result.map.  Left identity:
\* bind(f, success(v)) = f(v).  Right identity: bind(success, r) = r.
\* Associativity: bind(g, bind(f, r)) = bind(x => bind(g, f(x)), r).
\* map(f, r) = bind(x => success(f(x)), r).  r ranges over successes,
\* warnings and errors, the errors with and without warnings.
C20_MonadLaws ==
  /\ (operands.op = "bind" /\ operands.r.status = "success") =>
       outcome = operands.f[operands.r.data]
  /\ (operands.op = "bind" /\ operands.f = [v \in Payloads |-> SuccessResult(v)]) =>
       outcome = operands.r
  /\ (operands.op = "bindNext") =>
       outcome = Result_bind(operands.r,
                   C20_Composed(operands.f, operands.g, operands.f[operands.r.data]))
  /\ (operands.op = "map") =>
       outcome = Result_bind(operands.r, SuccessResult(operands.f[operands.r.data]))

C20_AllWarn(r, fx, gy) ==
  r.status = "warning" /\ fx.status = "warning" /\ gy.status = "error" /\ gy.warnings # <<>>

C20_ThroughF(r, g, fx) == HasData(fx) /\ C20_AllWarn(r, fx, g[fx.data])

\* bind(g, bind(f, r)) has returned for a warning r, a warning f(payload)
\* and an error g(payload) that carries warnings
C20_Witness ==
  /\ operands.op = "bindNext"
  /\ HasData(operands.r)
  /\ C20_ThroughF(operands.r, operands.g, operands.f[operands.r.data])

C21_BothHaveData == HasData(operands.r1) /\ HasData(operands.r2)

\* the warnings of r are among those of the result
C21_Carries(r) ==
  \A i \in 1..Len(r.warnings) :
    \E j \in 1..Len(outcome.warnings) : outcome.warnings[j] = r.warnings[i]

\* C21 as stated: Result.map2(f, r1, r2).  When neither operand is an error
\* the payload is f(d1, d2) and the warnings are those of both operands;
\* when an operand is an error the result is an error with the errors of the
\* first operand, in argument order, that is an error, and with the warnings
\* of every operand that is not an error.
C21_FirstErrorInArgumentOrder ==
  (operands.op = "map2") =>
    /\ C21_BothHaveData =>
         /\ outcome.data = operands.f[<<operands.r1.data, operands.r2.data>>]
         /\ Len(outcome.warnings) = Len(operands.r1.warnings) + Len(operands.r2.warnings)
         /\ C21_Carries(operands.r1) /\ C21_Carries(operands.r2)
    /\ ~C21_BothHaveData =>
         /\ outcome.status = "error"
         /\ outcome.errors = IF operands.r1.status = "error" THEN operands.r1.errors
                             ELSE operands.r2.errors
         /\ HasData(operands.r1) => C21_Carries(operands.r1)
         /\ HasData(operands.r2) => C21_Carries(operands.r2)

\* C21 amended: Result.map2(f, r1, r2).  When neither operand is an error
\* the payload is f(d1, d2), the status is success when both are successes
\* and warning otherwise, and the warnings are those of r2 followed by those
\* of r1.  When r2 is an error the result is r2 itself, whatever r1 is: the
\* errors and the warnings of r1 are not in it.  When r1 alone is an error the
\* result is an error with the errors of r1 and the warnings of r2 followed
\* by those of r1.
C21_Map2 ==
  (operands.op = "map2") =>
    /\ C21_BothHaveData =>
         /\ outcome.data = operands.f[<<operands.r1.data, operands.r2.data>>]
         /\ outcome.status =
              IF operands.r1.status = "success" /\ operands.r2.status = "success"
              THEN "success" ELSE "warning"
         /\ outcome.warnings = operands.r2.warnings \o operands.r1.warnings
         /\ outcome.errors = <<>>
    /\ (operands.r2.status = "error") => outcome = operands.r2
    /\ (HasData(operands.r2) /\ operands.r1.status = "error") =>
         /\ outcome.status = "error"
         /\ outcome.errors = operands.r1.errors
         /\ outcome.warnings = operands.r2.warnings \o operands.r1.warnings

\* map2 has returned for an error r2 and an r1 that is a warning
C21_Witness ==
  /\ operands.op = "map2"
  /\ operands.r2.status = "error"
  /\ operands.r1.status = "warning"

\* what the element mapping m writes for the elements of xs from place i on,
\* one after the other
RECURSIVE ElementsWritten(_, _, _)
ElementsWritten(m, xs, i) ==
  IF i > Len(xs) THEN <<>>
  ELSE Written(m, xs[i]) \o ElementsWritten(m, xs, i + 1)

\* C22: array(m).serialize(values, acc) calls m.serialize once for every
\* element of values, in order: what it appends is what m writes for the
\* first element, then for the second, and so on, also for sequences with
\* undefined elements.
C22_EveryElement ==
  (last.op = "serialize" /\ mapping.kind = "array" /\ res.status # "throw") =>
    url = ElementsWritten(mapping.inner, given.value.xs, 1)

\* the occurrences of key that the last parse read, in the order of the reads
C23_Consumed(key) ==
  SelectSeq(SubSeq(ctx.reads, Len(last.before.reads) + 1, Len(ctx.reads)),
            LAMBDA read : read[1] = key)

\* the last parse read the occurrences of key from cursor from up to cursor
\* to, one after the other, and the reads before it are those of the context
\* it was given
C23_ContiguousRun(key, from, to) ==
  /\ from <= to
  /\ Len(ctx.reads) >= Len(last.before.reads)
  /\ SubSeq(ctx.reads, 1, Len(last.before.reads)) = last.before.reads
  /\ C23_Consumed(key) = [i \in 1..(to - from) |-> <<key, from + i - 1>>]

C23_ParseHasData == last.op = "parse" /\ HasData(res)

\* C23 as stated: when the parse of a mapping returns success or warning,
\* the context it returns has, for every key, a cursor that is at most the
\* number of the key's occurrences and at least the cursor of the context it
\* was given, and the occurrences it read for the key are those from the
\* incoming cursor up to the returned one.
C23_CursorWithinLength ==
  C23_ParseHasData =>
    \A key \in DOMAIN ctx.progress :
      /\ ctx.progress[key] <= Len(ctx.valueMap[key])
      /\ C23_ContiguousRun(key, last.before.progress[key], ctx.progress[key])

\* C23 amended: when the parse of a mapping returns success or warning, the
\* context it returns has, for every key, a cursor that is at least the
\* cursor of the context it was given, and that is at most the number of the
\* key's occurrences or else is the incoming cursor unchanged (a cursor that
\* an earlier failed read left beyond the occurrences stays there); the
\* occurrences it read for the key are those from the incoming cursor up to
\* the returned one, and no failed read is left in the context.
C23_CursorMonotone ==
  C23_ParseHasData =>
    /\ ctx.valueMap = last.before.valueMap
    /\ ctx.misses = last.before.misses
    /\ \A key \in DOMAIN ctx.progress :
         /\ \/ ctx.progress[key] <= Len(ctx.valueMap[key])
            \/ ctx.progress[key] = last.before.progress[key]
         /\ C23_ContiguousRun(key, last.before.progress[key], ctx.progress[key])

\* a parse has returned data and read an occurrence, from a context in which
\* an earlier failed read had left a cursor beyond the occurrences
C23_Witness ==
  /\ C23_ParseHasData
  /\ \E key \in DOMAIN last.before.progress :
       last.before.progress[key] > Len(last.before.valueMap[key])
  /\ Len(ctx.reads) > Len(last.before.reads)

=============================================================================
